---------------------------- MODULE Spec2Model ----------------------------
(***************************************************************************)
(* Model of src/app.py: the /procesar endpoint that re-encodes an uploaded *)
(* image as a JPEG carrying synthetic EXIF and GPS metadata, and its       *)
(* helpers decimal_to_exif_gps, random_gps, fmt_exif_time, gps_time_tuple. *)
(*                                                                         *)
(* Numbers.  The program computes on IEEE doubles.  Angles are held here   *)
(* exactly, as a whole number of degrees plus a fraction counted in units  *)
(* of 1/UnitsPerDegree degree.  UnitsPerDegree = lcm(360000, 111320), so   *)
(* that both a hundredth of an arc-second (2783 units) and 1/9000 metre    *)
(* of northing (1 unit) are whole numbers of units and every quantity the  *)
(* program derives from the sampled inputs is exact.  The rounding of the  *)
(* double arithmetic is modelled where a result is truncated to an         *)
(* integer, as a bounded perturbation of the exact value (FloatErrs).      *)
(***************************************************************************)
EXTENDS Integers, Sequences, FiniteSets, TLC

VARIABLES
    dms,       \* one call of decimal_to_exif_gps: [value, err, ret]
    jit,       \* one call of random_gps: [lat0, lon0, meters, u, theta, ret]
    clock,     \* the wall clock, UTC: [sec, us]
    ticks,     \* how often the wall clock has advanced
    pc,        \* where procesar stands
    req,       \* the request body: [json_ok, image_base64, latitude, longitude]
    img,       \* procesar's img
    now_local, \* procesar's now_local
    now_utc,   \* procesar's now_utc
    subsec_ms, \* procesar's subsec_ms
    lat_rand,  \* procesar's lat_rand
    lon_rand,  \* procesar's lon_rand
    exif,      \* procesar's exif dictionary
    buf,       \* procesar's buf: the encoded image
    resp,      \* the HTTP response
    steps,     \* the pipeline steps procesar has executed, in order
    rng,       \* the state of the process-wide generator of module random
    seed,      \* the state that generator had when the process started
    thr        \* concurrent requests: the locals of each request's thread

fvars == <<dms, jit, rng, seed, thr>>
hvars == <<pc, req, img, now_local, now_utc, subsec_ms, lat_rand, lon_rand,
           exif, buf, resp, steps>>
vars == <<dms, jit, rng, seed, thr, clock, ticks, hvars>>

None == [kind |-> "none"]

-----------------------------------------------------------------------------
(* Angles *)

MetresPerDegree == 111320
SecondsPerDegree == 3600
CentiPerSecond == 100
UnitsPerMetre == 9000
UnitsPerDegree == MetresPerDegree * UnitsPerMetre
UnitsPerMinute == UnitsPerDegree \div 60
UnitsPerCenti == UnitsPerDegree \div (SecondsPerDegree * CentiPerSecond)

\* The float whole + frac/UnitsPerDegree, 0 <= frac < UnitsPerDegree.
Angle(whole, frac) == [whole |-> whole, frac |-> frac]

\* Python's abs() of a float.
Abs(v) ==
    IF v.whole >= 0 THEN v
    ELSE IF v.frac = 0 THEN Angle(-v.whole, 0)
    ELSE Angle(-v.whole - 1, UnitsPerDegree - v.frac)

\* -v.
Neg(v) ==
    IF v.frac = 0 THEN Angle(-v.whole, 0)
    ELSE Angle(-v.whole - 1, UnitsPerDegree - v.frac)

\* v + d, d a (small, signed) number of units.
AddUnits(v, d) ==
    LET f == v.frac + (d % UnitsPerDegree)
    IN  Angle(v.whole + (d \div UnitsPerDegree) + (f \div UnitsPerDegree),
              f % UnitsPerDegree)

\* a - b in units, for angles less than two degrees apart.
DiffUnits(a, b) == (a.whole - b.whole) * UnitsPerDegree + (a.frac - b.frac)

Leq(a, b) == a.whole < b.whole \/ (a.whole = b.whole /\ a.frac <= b.frac)

\* Python's int() of a float: truncation toward zero.
IntTrunc(x, d) == IF x >= 0 THEN x \div d ELSE -((-x) \div d)

\* The accumulated rounding error of the double arithmetic that produces
\* seconds * 100, in units; it is far below one hundredth of an arc-second.
FloatErr == 2
FloatErrs == (-FloatErr)..FloatErr

\* decimal_to_exif_gps(value), the double arithmetic being off by err units.
DecimalToExifGps(value, err) ==
    LET v == Abs(value)
        deg == v.whole
        minutes == v.frac \div UnitsPerMinute
        seconds100 == (v.frac - minutes * UnitsPerMinute) + err
    IN  << <<deg, 1>>, <<minutes, 1>>, <<IntTrunc(seconds100, UnitsPerCenti), 100>> >>

-----------------------------------------------------------------------------
(* decimal_to_exif_gps on its own *)

MaxDmsDegree == 2
MaxDmsMinute == 1
MaxDmsCenti == 3
DmsDegrees == (0..MaxDmsDegree) \cup {40, 57, 179}
DmsMinutes == (0..MaxDmsMinute) \cup {25, 46, 59}
DmsCentis == (0..MaxDmsCenti) \cup {48, 3324, 5999}
\* Offsets inside one hundredth of an arc-second: on it, just above it, just
\* below the half, just above the half, and just below the next hundredth.
DmsSubUnits == {0, 1, UnitsPerCenti \div 2, UnitsPerCenti \div 2 + 1, UnitsPerCenti - 1}

DmsMagnitudes ==
    { Angle(d, m * UnitsPerMinute + c * UnitsPerCenti + u) :
        d \in DmsDegrees, m \in DmsMinutes, c \in DmsCentis, u \in DmsSubUnits }

DmsValues == DmsMagnitudes \cup { Neg(v) : v \in DmsMagnitudes }

NoExif == [zeroth |-> <<>>, Exif |-> <<>>, GPS |-> <<>>, first |-> <<>>, thumbnail |-> None]

\* No request is being handled.
NoHandler ==
    /\ pc = "idle"
    /\ req = None
    /\ img = None
    /\ now_local = None
    /\ now_utc = None
    /\ subsec_ms = 0
    /\ lat_rand = None
    /\ lon_rand = None
    /\ exif = NoExif
    /\ buf = None
    /\ resp = None
    /\ steps = <<>>

NoClock == clock = [sec |-> 0, us |-> 0] /\ ticks = 0

NoThreads == rng = 0 /\ seed = 0 /\ thr = <<>>

NoDms == [value |-> Angle(0, 0), err |-> 0, ret |-> None]

NoJit == [lat0 |-> Angle(0, 0), lon0 |-> Angle(0, 0), meters |-> 0,
          u |-> 0, theta |-> 0, ret |-> None]

DmsInit ==
    /\ dms \in { [value |-> v, err |-> 0, ret |-> None] : v \in DmsValues }
    /\ jit = NoJit
    /\ NoHandler /\ NoClock /\ NoThreads

DmsCall ==
    /\ dms.ret = None
    /\ jit = NoJit
    /\ \E e \in FloatErrs :
         dms' = [dms EXCEPT !.err = e, !.ret = DecimalToExifGps(dms.value, e)]
    /\ UNCHANGED <<jit, rng, seed, thr, clock, ticks, hvars>>

DmsNext == DmsCall

SpecDms == DmsInit /\ [][DmsNext]_vars

\* seconds * 100 of the exact arithmetic, in units, for the value v >= 0.
ExactSeconds100(v) == v.frac - (v.frac \div UnitsPerMinute) * UnitsPerMinute

\* round() to the nearest integer; UnitsPerCenti is odd, so there are no ties.
RoundNearest(x, d) == (x + d \div 2) \div d

\* C2: for every value v, decimal_to_exif_gps(v) returns ((deg,1),(minutes,1),(s,100))
\* with a = |v|, deg = floor(a), minutes = floor((a - deg) * 60) and
\* s = round(seconds * 100), the seconds rounded to the nearest hundredth.
C2_SecondsRounded ==
    dms.ret # None =>
        LET a == Abs(dms.value)
        IN  dms.ret = << <<a.whole, 1>>, <<a.frac \div UnitsPerMinute, 1>>,
                         <<RoundNearest(ExactSeconds100(a), UnitsPerCenti), 100>> >>

\* The triple converted back, as units above the whole degrees of the triple.
BackUnits(t) == t[2][1] * UnitsPerMinute + t[3][1] * UnitsPerCenti

\* C3: for every value v in [0, 180], the triple of decimal_to_exif_gps(v)
\* converted back as deg + minutes/60 + (s/100)/3600 is within 0.01 arc-second of v.
C3_RoundTrip ==
    (dms.ret # None /\ dms.value.whole >= 0 /\ Leq(dms.value, Angle(180, 0))) =>
        /\ dms.ret[1][1] = dms.value.whole
        /\ BackUnits(dms.ret) - dms.value.frac <= UnitsPerCenti
        /\ dms.value.frac - BackUnits(dms.ret) <= UnitsPerCenti

-----------------------------------------------------------------------------
(* random_gps *)

\* random.random() returns U1 with sqrt(U1) = u / SqrtGrid, u in 0..SqrtGrid-1,
\* so U1 = (u / SqrtGrid)^2 ranges over [0, 1).
SqrtGrid == 4
Draws == 0..(SqrtGrid - 1)

\* random.uniform(0, 2*pi) returns one of the angles whose cosine and sine are
\* rational: the four axes and the eight angles of the 3-4-5 triangle.
\* Thetas[i] = <<cos, sin>> in fifths.
Thetas ==
    << <<5, 0>>, <<4, 3>>, <<3, 4>>, <<0, 5>>, <<-3, 4>>, <<-4, 3>>,
       <<-5, 0>>, <<-4, -3>>, <<-3, -4>>, <<0, -5>>, <<3, -4>>, <<4, -3>> >>
ThetaIds == 1..Len(Thetas)
MathCos(theta) == [num |-> Thetas[theta][1], den |-> 5]
MathSin(theta) == [num |-> Thetas[theta][2], den |-> 5]

\* math.cos(math.radians(90)) is 6.123e-17 in double arithmetic, not 0: the
\* division at the pole does not raise, it returns an offset 1.6e16 times
\* too large.  PoleCosInv stands for 1/cos(90 deg); it is the largest power
\* of ten times five that keeps the offsets of this model within 32 bits, so
\* the polar offsets computed here are a lower bound of the program's.
PoleCosInv == 50000

Lat40 == Angle(40, 4168 * (UnitsPerDegree \div 10000))
Lon3W == Neg(Angle(3, 7038 * (UnitsPerDegree \div 10000)))

\* math_cos_deg(deg) on the latitudes sampled: exact at 0, 60 and 90 degrees,
\* and cos(40.4168 deg) = 0.7613 taken as 3/4.
MathCosDeg(deg) ==
    LET a == Abs(deg)
    IN  CASE a = Angle(0, 0) -> [num |-> 1, den |-> 1]
          [] a = Lat40 -> [num |-> 3, den |-> 4]
          [] a = Angle(60, 0) -> [num |-> 1, den |-> 2]
          [] a = Angle(90, 0) -> [num |-> 1, den |-> PoleCosInv]

\* The radius taken for a half-width: r = sqrt(U1) * 2 * meters.
JitterRadiusDoubled(u, meters) == (u * 2 * meters * UnitsPerMetre) \div SqrtGrid

\* r = math.sqrt(random.random()) * meters, in units of 1/UnitsPerMetre metre.
JitterRadius(u, meters) == (u * meters * UnitsPerMetre) \div SqrtGrid

\* random_gps(lat0, lon0, meters) with the draws u and theta.
\* dlat = dy / 111320.0 degrees is dy units, a unit being
\* 1/(111320 * UnitsPerMetre) degree.
RandomGps(lat0, lon0, meters, u, theta) ==
    LET r == JitterRadius(u, meters)
        dx == (r * MathCos(theta).num) \div MathCos(theta).den
        dy == (r * MathSin(theta).num) \div MathSin(theta).den
        dlat == dy
        dlon == (dx * MathCosDeg(lat0).den) \div MathCosDeg(lat0).num
    IN  <<AddUnits(lat0, dlat), AddUnits(lon0, dlon)>>

-----------------------------------------------------------------------------
(* random_gps on its own *)

MaxMeters == 2
Latitudes == {Angle(0, 0), Lat40, Angle(60, 0), Angle(-60, 0), Angle(90, 0), Angle(-90, 0)}
Longitudes == {Lon3W, Angle(0, 0), Angle(180, 0), Angle(-180, 0)}

JitInit ==
    /\ jit \in { [lat0 |-> la, lon0 |-> lo, meters |-> m, u |-> 0, theta |-> 0, ret |-> None] :
                   la \in Latitudes, lo \in Longitudes, m \in 1..MaxMeters }
    /\ dms = NoDms
    /\ NoHandler /\ NoClock /\ NoThreads

JitCall ==
    /\ jit.ret = None
    /\ jit.meters > 0
    /\ \E u \in Draws, th \in ThetaIds :
         jit' = [jit EXCEPT !.u = u, !.theta = th,
                            !.ret = RandomGps(jit.lat0, jit.lon0, jit.meters, u, th)]
    /\ UNCHANGED <<dms, rng, seed, thr, clock, ticks, hvars>>

JitNext == JitCall

SpecJitter == JitInit /\ [][JitNext]_vars

\* The returned point mapped back to local metres, in units of 1/UnitsPerMetre
\* metre: <<east, north>> =
\* <<(lon - lon0) * 111320 * cos(lat0), (lat - lat0) * 111320>>.
LocalMetres(lat0, lon0, p) ==
    <<(DiffUnits(p[2], lon0) * MathCosDeg(lat0).num) \div MathCosDeg(lat0).den,
      DiffUnits(p[1], lat0)>>

\* C4: for every origin, every radius meters > 0 and every pair of draws, the
\* point random_gps returns, mapped back to local metres, lies within
\* distance meters of the origin.
C4_WithinRadius ==
    jit.ret # None =>
        LET m == LocalMetres(jit.lat0, jit.lon0, jit.ret)
            R == jit.meters * UnitsPerMetre
        IN  m[1] * m[1] + m[2] * m[2] <= R * R

\* The largest draw at the handler's radius, from the origin (40.4168, -3.7038),
\* displaced both east and north.
C4_Witness ==
    /\ jit.ret # None
    /\ jit.meters = 2 /\ jit.u = SqrtGrid - 1
    /\ jit.lat0 = Lat40 /\ jit.lon0 = Lon3W
    /\ LocalMetres(jit.lat0, jit.lon0, jit.ret)[1] > UnitsPerMetre
    /\ LocalMetres(jit.lat0, jit.lon0, jit.ret)[2] > 0

-----------------------------------------------------------------------------
(* datetime *)

SecondsPerDay == 86400

\* Days since 1970-01-01 of the proleptic Gregorian date y-m-d.
DaysFromCivil(y, m, d) ==
    LET yy == IF m <= 2 THEN y - 1 ELSE y
        era == yy \div 400
        yoe == yy - era * 400
        mp == IF m > 2 THEN m - 3 ELSE m + 9
        doy == (153 * mp + 2) \div 5 + d - 1
        doe == yoe * 365 + yoe \div 4 - yoe \div 100 + doy
    IN  era * 146097 + doe - 719468

\* The date <<y, m, d>> that is z days after 1970-01-01.
CivilFromDays(z) ==
    LET zz == z + 719468
        era == zz \div 146097
        doe == zz - era * 146097
        yoe == (doe - doe \div 1460 + doe \div 36524 - doe \div 146096) \div 365
        doy == doe - (365 * yoe + yoe \div 4 - yoe \div 100)
        mp == (5 * doy + 2) \div 153
        d == doy - (153 * mp + 2) \div 5 + 1
        m == IF mp < 10 THEN mp + 3 ELSE mp - 9
    IN  <<IF m <= 2 THEN yoe + era * 400 + 1 ELSE yoe + era * 400, m, d>>

\* An aware datetime: the fields of the wall time at utcoffset seconds east.
Datetime(secs, us, off) ==
    LET local == secs + off
        date == CivilFromDays(local \div SecondsPerDay)
        sod == local % SecondsPerDay
    IN  [year |-> date[1], month |-> date[2], day |-> date[3],
         hour |-> sod \div 3600, minute |-> (sod % 3600) \div 60, second |-> sod % 60,
         microsecond |-> us, utcoffset |-> off]

\* Seconds since the epoch of the instant dt denotes.
Timestamp(dt) ==
    DaysFromCivil(dt.year, dt.month, dt.day) * SecondsPerDay
        + dt.hour * 3600 + dt.minute * 60 + dt.second - dt.utcoffset

\* timedelta(hours=1)
OffsetHours == 1
OffsetSeconds == OffsetHours * 3600

\* datetime.now(timezone(offset)) read from the wall clock clk = [sec, us] (UTC).
DatetimeNow(clk, off) == Datetime(clk.sec, clk.us, off)

\* The conversion left out: the local fields relabelled as UTC.
AsTimezoneRelabel(dt, off) == [dt EXCEPT !.utcoffset = off]

\* dt.astimezone(timezone(off)): the same instant, at another offset.
AsTimezone(dt, off) == Datetime(Timestamp(dt), dt.microsecond, off)

Pad2(n) == IF n < 10 THEN "0" \o ToString(n) ELSE ToString(n)
Pad3(n) == IF n < 10 THEN "00" \o ToString(n)
           ELSE IF n < 100 THEN "0" \o ToString(n) ELSE ToString(n)
Pad4(n) == IF n < 1000 THEN "0" \o Pad3(n) ELSE ToString(n)

\* dt.strftime("%Y:%m:%d")
FmtDate(dt) == Pad4(dt.year) \o ":" \o Pad2(dt.month) \o ":" \o Pad2(dt.day)

\* fmt_exif_time(dt): dt.strftime("%Y:%m:%d %H:%M:%S")
FmtExifTime(dt) ==
    FmtDate(dt) \o " " \o Pad2(dt.hour) \o ":" \o Pad2(dt.minute) \o ":" \o Pad2(dt.second)

\* dt.strftime("%Y%m%d_%H%M%S")
FmtFileTime(dt) ==
    Pad4(dt.year) \o Pad2(dt.month) \o Pad2(dt.day) \o "_"
        \o Pad2(dt.hour) \o Pad2(dt.minute) \o Pad2(dt.second)

\* gps_time_tuple(dt)
GpsTimeTuple(dt) == << <<dt.hour, 1>>, <<dt.minute, 1>>, <<dt.second, 1>> >>

\* The wall clock at y-m-d h:mi:s UTC and ms milliseconds.
ClockAt(y, m, d, h, mi, sec, ms) ==
    [sec |-> DaysFromCivil(y, m, d) * SecondsPerDay + h * 3600 + mi * 60 + sec,
     us |-> ms * 1000]

-----------------------------------------------------------------------------
(* procesar *)

\* A JSON value of the request body.
JsonNull == [kind |-> "null", text |-> "", num |-> Angle(0, 0)]
JsonStr(t) == [kind |-> "str", text |-> t, num |-> Angle(0, 0)]
JsonNum(v) == [kind |-> "num", text |-> "", num |-> v]

\* What an image_base64 string holds once its data: prefix is split off and it
\* is base64-decoded: nothing, bytes that are no image, or an image.
NoImage == [kind |-> "empty", mode |-> "", width |-> 0, height |-> 0]
Garbage == [kind |-> "garbage", mode |-> "", width |-> 0, height |-> 0]
Picture(mode, w, h) == [kind |-> "image", mode |-> mode, width |-> w, height |-> h]
ImageNull == [kind |-> "null", prefix |-> FALSE, payload |-> NoImage]
ImageStr(prefix, payload) == [kind |-> "str", prefix |-> prefix, payload |-> payload]

Pictures == {Picture("RGBA", 1920, 1080), Picture("RGB", 640, 480), Picture("LA", 2, 3)}

ImageFields ==
    {ImageNull, ImageStr(FALSE, NoImage), ImageStr(FALSE, Garbage),
     ImageStr(TRUE, Picture("RGBA", 1920, 1080))}
        \cup { ImageStr(FALSE, p) : p \in Pictures }
LatitudeFields ==
    {JsonNull, JsonStr("abc"), JsonStr("40.4168"), JsonNum(Lat40), JsonNum(Angle(90, 0))}
LongitudeFields ==
    {JsonNull, JsonStr(""), JsonNum(Lon3W), JsonNum(Angle(180, 0))}

\* The bodies request.get_json(silent=True) yields: None, or a dictionary.
Requests ==
    {[json_ok |-> FALSE, image_base64 |-> ImageNull, latitude |-> JsonNull, longitude |-> JsonNull]}
        \cup [json_ok : {TRUE}, image_base64 : ImageFields,
              latitude : LatitudeFields, longitude : LongitudeFields]

\* Python's truth value of the image_base64 field.
Truthy(f) == f.kind = "str" /\ (f.prefix \/ f.payload.kind # "empty")

\* float(x) raises ValueError on a string that is no number.
FloatRaises(x) == x.kind = "str" /\ x.text # "40.4168"
PyFloat(x) == IF x.kind = "num" THEN x.num ELSE CASE x.text = "40.4168" -> Lat40

\* Image.open(BytesIO(base64.b64decode(image_b64))) raises unless the bytes are an image.
OpenRaises(f) == f.payload.kind # "image"

\* img.convert(mode)
ImageConvert(im, mode) == [im EXCEPT !.mode = mode]

\* The modes Pillow's JPEG encoder writes; img.save raises OSError on any other.
JpegWritable(mode) == mode \in {"1", "L", "RGB", "RGBX", "CMYK", "YCbCr"}

\* The modes of Pillow that carry an alpha channel.
HasAlpha(mode) == mode \in {"RGBA", "LA", "PA", "RGBa", "La"}

Error(status, msg) == [status |-> status, error |-> msg, filename |-> "", image |-> None]

\* Flask answers an exception the view does not catch with 500.
Unhandled(exc) == Error(500, exc)

MaxTicks == 2
TickMicros == 500000
StartInstants ==
    {ClockAt(2024, 3, 15, 13, 30, 45, 123), ClockAt(2024, 3, 14, 23, 30, 0, 0),
     ClockAt(2023, 12, 31, 23, 59, 59, 600), ClockAt(2024, 2, 28, 23, 0, 0, 0),
     ClockAt(2024, 2, 29, 23, 59, 59, 999)}

Init ==
    /\ dms = NoDms
    /\ jit = NoJit
    /\ NoThreads
    /\ clock \in StartInstants
    /\ ticks = 0
    /\ pc = "validate"
    /\ req \in Requests
    /\ img = None
    /\ now_local = None
    /\ now_utc = None
    /\ subsec_ms = 0
    /\ lat_rand = None
    /\ lon_rand = None
    /\ exif = NoExif
    /\ buf = None
    /\ resp = None
    /\ steps = <<>>

\* Time passes while the request is handled.
Tick ==
    /\ pc \notin {"idle", "done"}
    /\ ticks < MaxTicks
    /\ ticks' = ticks + 1
    /\ clock' = [sec |-> clock.sec + (clock.us + TickMicros) \div 1000000,
                 us |-> (clock.us + TickMicros) % 1000000]
    /\ UNCHANGED <<fvars, hvars>>

Return(r) == resp' = r /\ pc' = "done"

\* Lines 39-47: the body and its three fields.
Validate ==
    /\ pc = "validate"
    /\ IF ~req.json_ok
       THEN Return(Error(400, "JSON invalido"))
       ELSE IF ~Truthy(req.image_base64) \/ req.latitude.kind = "null"
                                          \/ req.longitude.kind = "null"
       THEN Return(Error(400, "Faltan campos: image_base64, latitude, longitude"))
       ELSE pc' = "decode" /\ resp' = resp
    /\ UNCHANGED <<img, now_local, now_utc, subsec_ms, lat_rand, lon_rand, exif, buf, steps>>
    /\ UNCHANGED <<fvars, clock, ticks, req>>

\* Lines 49-57: strip the data: prefix, decode, open.
Decode ==
    /\ pc = "decode"
    /\ steps' = Append(steps, "decode")
    /\ IF OpenRaises(req.image_base64)
       THEN Return(Error(400, "No se pudo decodificar la imagen")) /\ img' = img
       ELSE img' = req.image_base64.payload /\ pc' = "convert" /\ resp' = resp
    /\ UNCHANGED <<now_local, now_utc, subsec_ms, lat_rand, lon_rand, exif, buf>>
    /\ UNCHANGED <<fvars, clock, ticks, req>>

\* Lines 59-61.
Convert ==
    /\ pc = "convert"
    /\ steps' = Append(steps, "convert")
    /\ img' = IF img.mode = "RGBA" THEN ImageConvert(img, "RGB") ELSE img
    /\ pc' = "times"
    /\ UNCHANGED <<now_local, now_utc, subsec_ms, lat_rand, lon_rand, exif, buf, resp>>
    /\ UNCHANGED <<fvars, clock, ticks, req>>

\* Lines 63-68.
Times ==
    /\ pc = "times"
    /\ steps' = Append(steps, "clock")
    /\ now_local' = DatetimeNow(clock, OffsetSeconds)
    /\ now_utc' = AsTimezone(now_local', 0)
    /\ subsec_ms' = now_local'.microsecond \div 1000
    /\ pc' = "jitter"
    /\ UNCHANGED <<img, lat_rand, lon_rand, exif, buf, resp>>
    /\ UNCHANGED <<fvars, clock, ticks, req>>

\* Lines 70-71.
Jitter ==
    /\ pc = "jitter"
    /\ IF FloatRaises(req.latitude) \/ FloatRaises(req.longitude)
       THEN /\ Return(Unhandled("ValueError"))
            /\ UNCHANGED <<lat_rand, lon_rand, steps>>
       ELSE /\ \E u \in Draws, th \in ThetaIds :
                 LET p == RandomGps(PyFloat(req.latitude), PyFloat(req.longitude), 2, u, th)
                 IN  lat_rand' = p[1] /\ lon_rand' = p[2]
            /\ steps' = Append(steps, "jitter")
            /\ pc' = "build0th"
            /\ resp' = resp
    /\ UNCHANGED <<img, now_local, now_utc, subsec_ms, exif, buf>>
    /\ UNCHANGED <<fvars, clock, ticks, req>>

\* Lines 73-81: the 0th directory.
Build0th ==
    /\ pc = "build0th"
    /\ steps' = Append(steps, "build")
    /\ exif' = [NoExif EXCEPT !.zeroth =
                  [Make |-> "samsung", Model |-> "Galaxy A54 5G", Software |-> "A546BXXSCCYD1",
                   DateTime |-> FmtExifTime(now_local),
                   ImageDescription |-> "Procesada: metadatos generados",
                   Orientation |-> 1]]
    /\ pc' = "buildExif"
    /\ UNCHANGED <<img, now_local, now_utc, subsec_ms, lat_rand, lon_rand, buf, resp>>
    /\ UNCHANGED <<fvars, clock, ticks, req>>

\* The time the program would write had it read the clock again for the field.
DateTimeDigitizedReread == FmtExifTime(DatetimeNow(clock, OffsetSeconds))

\* Line 90: the value of DateTimeDigitized.
DateTimeDigitized == FmtExifTime(now_local)

\* Width and height exchanged.
PixelDimensionsSwapped(im) == <<im.height, im.width>>

\* Lines 94-95: the values of PixelXDimension and PixelYDimension.
PixelDimensions(im) == <<im.width, im.height>>

\* Line 68.
offset_str == "+01:00"

\* Lines 83-100: the Exif directory.
BuildExif ==
    /\ pc = "buildExif"
    /\ exif' = [exif EXCEPT !.Exif =
                  [ExposureTime |-> <<1, 221>>, FNumber |-> <<18, 10>>,
                   ISOSpeedRatings |-> 40, ExposureProgram |-> 2, ExifVersion |-> "0220",
                   DateTimeOriginal |-> FmtExifTime(now_local),
                   DateTimeDigitized |-> DateTimeDigitized,
                   SubSecTimeOriginal |-> Pad3(subsec_ms),
                   FocalLength |-> <<55, 10>>, ColorSpace |-> 1,
                   PixelXDimension |-> PixelDimensions(img)[1],
                   PixelYDimension |-> PixelDimensions(img)[2],
                   ApertureValue |-> <<18, 10>>,
                   OffsetTime |-> offset_str, OffsetTimeOriginal |-> offset_str,
                   OffsetTimeDigitized |-> offset_str]]
    /\ pc' = "buildGps"
    /\ UNCHANGED <<img, now_local, now_utc, subsec_ms, lat_rand, lon_rand, buf, resp, steps>>
    /\ UNCHANGED <<fvars, clock, ticks, req>>

\* Lines 102-108: the GPS directory.  Both conversions run on doubles; their
\* rounding is taken to be off by the same err.
BuildGps ==
    /\ pc = "buildGps"
    /\ \E err \in FloatErrs :
         exif' = [exif EXCEPT !.GPS =
                    [GPSLatitudeRef |-> IF lat_rand.whole >= 0 THEN "N" ELSE "S",
                     GPSLatitude |-> DecimalToExifGps(lat_rand, err),
                     GPSLongitudeRef |-> IF lon_rand.whole >= 0 THEN "E" ELSE "W",
                     GPSLongitude |-> DecimalToExifGps(lon_rand, err),
                     GPSDateStamp |-> FmtDate(now_utc),
                     GPSTimeStamp |-> GpsTimeTuple(now_utc)]]
    /\ pc' = "save"
    /\ UNCHANGED <<img, now_local, now_utc, subsec_ms, lat_rand, lon_rand, buf, resp, steps>>
    /\ UNCHANGED <<fvars, clock, ticks, req>>

\* Lines 111-115: piexif.dump(exif) and img.save(buf, format="JPEG", ...).
\* Every value the builder writes has the type its tag requires, so dump does
\* not raise; the serialised block is held as the record it encodes.
Save ==
    /\ pc = "save"
    /\ IF JpegWritable(img.mode)
       THEN /\ buf' = [format |-> "JPEG", quality |-> 95, mode |-> img.mode,
                       width |-> img.width, height |-> img.height, exif |-> exif]
            /\ steps' = Append(steps, "encode")
            /\ pc' = "respond"
            /\ resp' = resp
       ELSE /\ Return(Unhandled("OSError"))
            /\ UNCHANGED <<buf, steps>>
    /\ UNCHANGED <<img, now_local, now_utc, subsec_ms, lat_rand, lon_rand, exif>>
    /\ UNCHANGED <<fvars, clock, ticks, req>>

\* Lines 117-119.
Respond ==
    /\ pc = "respond"
    /\ Return([status |-> 200, error |-> "",
               filename |-> "imagen_" \o FmtFileTime(now_local) \o ".jpg",
               image |-> buf])
    /\ UNCHANGED <<img, now_local, now_utc, subsec_ms, lat_rand, lon_rand, exif, buf, steps>>
    /\ UNCHANGED <<fvars, clock, ticks, req>>

Next ==
    \/ Tick
    \/ Validate
    \/ Decode
    \/ Convert
    \/ Times
    \/ Jitter
    \/ Build0th
    \/ BuildExif
    \/ BuildGps
    \/ Save
    \/ Respond

Spec == Init /\ [][Next]_vars

-----------------------------------------------------------------------------
(* Properties of procesar *)

Succeeded == resp # None /\ resp.status = 200
GpsBuilt == DOMAIN exif.GPS # {}

IsLeap(y) == (y % 4 = 0 /\ y % 100 # 0) \/ y % 400 = 0
DaysInMonth(y, m) ==
    IF m = 2 THEN (IF IsLeap(y) THEN 29 ELSE 28)
    ELSE IF m \in {4, 6, 9, 11} THEN 30 ELSE 31

\* The wall time dt minus the configured offset, by borrowing from the date.
LocalMinusOffset(dt) ==
    IF dt.hour >= OffsetHours THEN [dt EXCEPT !.hour = dt.hour - OffsetHours]
    ELSE IF dt.day > 1
        THEN [dt EXCEPT !.hour = dt.hour + 24 - OffsetHours, !.day = dt.day - 1]
    ELSE IF dt.month > 1
        THEN [dt EXCEPT !.hour = dt.hour + 24 - OffsetHours, !.month = dt.month - 1,
                        !.day = DaysInMonth(dt.year, dt.month - 1)]
    ELSE [dt EXCEPT !.hour = dt.hour + 24 - OffsetHours, !.year = dt.year - 1,
                    !.month = 12, !.day = 31]

\* C1: the GPS fields procesar writes are the local-time fields minus the
\* configured UTC offset, the seconds an integer: also across midnight, and
\* local 2024-03-15 14:30:45.123 gives "2024:03:15" and (13,30,45).
C1_GpsIsLocalMinusOffset ==
    GpsBuilt =>
        LET u == LocalMinusOffset(now_local)
        IN  /\ exif.zeroth.DateTime = FmtExifTime(now_local)
            /\ exif.GPS.GPSDateStamp = FmtDate(u)
            /\ exif.GPS.GPSTimeStamp = << <<u.hour, 1>>, <<u.minute, 1>>, <<u.second, 1>> >>
            /\ (exif.zeroth.DateTime = "2024:03:15 14:30:45" =>
                  /\ exif.GPS.GPSDateStamp = "2024:03:15"
                  /\ exif.GPS.GPSTimeStamp = << <<13, 1>>, <<30, 1>>, <<45, 1>> >>)
            /\ (exif.zeroth.DateTime = "2024:03:15 00:30:00" =>
                  /\ exif.GPS.GPSDateStamp = "2024:03:14"
                  /\ exif.GPS.GPSTimeStamp[1] = <<23, 1>>)

\* A delivered record whose local time is in the first hour of a year.
C1_Witness ==
    /\ Succeeded
    /\ now_local.hour = 0 /\ now_local.day = 1 /\ now_local.month = 1
    /\ resp.image.exif.GPS.GPSDateStamp = "2023:12:31"

\* C5: in every successful response DateTime, DateTimeOriginal and
\* DateTimeDigitized are one string "YYYY:MM:DD HH:MM:SS", made from the one
\* reading of the clock the request takes.
C5_OneTimeString ==
    Succeeded =>
        LET e == resp.image.exif
        IN  /\ e.zeroth.DateTime = e.Exif.DateTimeOriginal
            /\ e.zeroth.DateTime = e.Exif.DateTimeDigitized
            /\ e.zeroth.DateTime = FmtExifTime(now_local)
            /\ Len(e.zeroth.DateTime) = 19
            /\ Cardinality({i \in DOMAIN steps : steps[i] = "clock"}) = 1

\* A successful request during which the clock moved on to a later second
\* after it was read.
C5_Witness ==
    /\ Succeeded
    /\ clock.sec > Timestamp(now_local)
    /\ ticks > 0

\* C6: in every successful response PixelXDimension and PixelYDimension are
\* the width and height of the decoded source image, also after the
\* alpha-dropping conversion.
C6_PixelDimensions ==
    Succeeded =>
        /\ resp.image.exif.Exif.PixelXDimension = req.image_base64.payload.width
        /\ resp.image.exif.Exif.PixelYDimension = req.image_base64.payload.height

\* A converted 1920 x 1080 RGBA source, delivered.
C6_Witness ==
    /\ Succeeded
    /\ req.image_base64.payload = Picture("RGBA", 1920, 1080)
    /\ img.mode = "RGB"
    /\ resp.image.exif.Exif.PixelXDimension = 1920
    /\ resp.image.exif.Exif.PixelYDimension = 1080

\* The image or a coordinate is absent, empty or no number.
Malformed(r) ==
    /\ r.json_ok
    /\ \/ ~Truthy(r.image_base64)
       \/ r.latitude.kind = "null" \/ r.longitude.kind = "null"
       \/ FloatRaises(r.latitude) \/ FloatRaises(r.longitude)

\* C7: a request whose image or coordinate field is missing or malformed is
\* answered with an input error before any later pipeline step runs, and
\* with no filename and no image.
C7_RejectedAtOnce ==
    (pc = "done" /\ Malformed(req)) =>
        /\ resp.status = 400
        /\ steps = <<>>
        /\ resp.filename = "" /\ resp.image = None

\* C8: every decodable source image with an alpha channel, whatever its mode,
\* ends as a re-encoded JPEG of quality 95 without alpha, not as an encode failure.
C8_AlphaDropped ==
    (/\ pc = "done"
     /\ ~Malformed(req) /\ req.json_ok
     /\ req.image_base64.payload.kind = "image"
     /\ HasAlpha(req.image_base64.payload.mode)) =>
        /\ resp.status = 200
        /\ resp.image.format = "JPEG" /\ resp.image.quality = 95
        /\ ~HasAlpha(resp.image.mode)

ValidLatitude(v) == Leq(Angle(-90, 0), v) /\ Leq(v, Angle(90, 0))
ValidLongitude(v) == Leq(Angle(-180, 0), v) /\ Leq(v, Angle(180, 0))

\* C10: for every input latitude in [-90,90] and longitude in [-180,180], the
\* poles and the antimeridian included, the jittered coordinate is a valid
\* coordinate, the encoded degrees do not exceed 90 and 180, and the
\* longitude offset stays within the jitter radius.
C10_StaysValid ==
    (lat_rand # None /\ ValidLatitude(PyFloat(req.latitude))
                     /\ ValidLongitude(PyFloat(req.longitude))) =>
        /\ ValidLatitude(lat_rand)
        /\ ValidLongitude(lon_rand)
        /\ (GpsBuilt => Leq(Abs(lat_rand), Angle(90, 0)) /\ exif.GPS.GPSLongitude[1][1] <= 180)

-----------------------------------------------------------------------------
(* Concurrent requests.  Flask serves each request on a thread of its own.  *)
(* Every name procesar assigns is a local of its call; module random keeps  *)
(* one generator for the process, which each random.random() reads and      *)
(* advances in one uninterrupted step; the wall clock is only read.         *)

\* The generator as a full-period congruential generator: its state is its output.
RngModulus == 48

\* The draw that leaves the generator where it was.
RngStuck(s) == s

\* The generator's state after a draw from state s.
RngNext(s) == (13 * s + 5) % RngModulus

\* random.random() drawn from state s, as the u of Draws.
RandomRandom(s) == s % SqrtGrid

\* random.uniform(0, 2 * pi) drawn from state s, as an index of Thetas.
RandomUniform(s) == (s % Len(Thetas)) + 1

NumRequests == 2
MaxSeed == 1
MaxConcTicks == 1
Reqs == 1..NumRequests

\* The latitude request i asks for.
LatitudeOf(i) == IF i % 2 = 1 THEN Lat40 ELSE Angle(60, 0)

\* What a request returns: the jittered coordinate and the file name.
Outcome(lat, lon, now, su, st) ==
    [point |-> RandomGps(lat, lon, 2, RandomRandom(su), RandomUniform(st)),
     filename |-> "imagen_" \o FmtFileTime(now) \o ".jpg"]

ConcInit ==
    /\ dms = NoDms
    /\ jit = NoJit
    /\ NoHandler
    /\ clock = ClockAt(2023, 12, 31, 23, 59, 59, 600)
    /\ ticks = 0
    /\ seed \in 0..MaxSeed
    /\ rng = seed
    /\ thr = [i \in Reqs |-> [pc |-> "times", lat |-> LatitudeOf(i), lon |-> Lon3W,
                              now |-> None, su |-> -1, st |-> -1, out |-> None]]

CTick ==
    /\ \E i \in Reqs : thr[i].pc # "done"
    /\ ticks < MaxConcTicks
    /\ ticks' = ticks + 1
    /\ clock' = [sec |-> clock.sec + (clock.us + TickMicros) \div 1000000,
                 us |-> (clock.us + TickMicros) % 1000000]
    /\ UNCHANGED <<dms, jit, rng, seed, thr, hvars>>

\* Line 65 on thread i.
CTimes(i) ==
    /\ thr[i].pc = "times"
    /\ thr' = [thr EXCEPT ![i].now = DatetimeNow(clock, OffsetSeconds), ![i].pc = "random"]
    /\ UNCHANGED <<dms, jit, rng, seed, clock, ticks, hvars>>

\* Line 22 on thread i: random.random().
CRandom(i) ==
    /\ thr[i].pc = "random"
    /\ thr' = [thr EXCEPT ![i].su = rng, ![i].pc = "uniform"]
    /\ rng' = RngNext(rng)
    /\ UNCHANGED <<dms, jit, seed, clock, ticks, hvars>>

\* Line 23 on thread i: random.uniform(0, 2 * math.pi).
CUniform(i) ==
    /\ thr[i].pc = "uniform"
    /\ thr' = [thr EXCEPT ![i].st = rng, ![i].pc = "return"]
    /\ rng' = RngNext(rng)
    /\ UNCHANGED <<dms, jit, seed, clock, ticks, hvars>>

\* Lines 24-28 and 73-119 on thread i.
CReturn(i) ==
    /\ thr[i].pc = "return"
    /\ thr' = [thr EXCEPT ![i].pc = "done",
                          ![i].out = Outcome(thr[i].lat, thr[i].lon, thr[i].now,
                                             thr[i].su, thr[i].st)]
    /\ UNCHANGED <<dms, jit, rng, seed, clock, ticks, hvars>>

ConcNext ==
    \/ CTick
    \/ \E i \in Reqs : CTimes(i)
    \/ \E i \in Reqs : CRandom(i)
    \/ \E i \in Reqs : CUniform(i)
    \/ \E i \in Reqs : CReturn(i)

SpecConc == ConcInit /\ [][ConcNext]_vars

RECURSIVE RngIter(_, _)
\* The generator's state n draws after state s.
RngIter(s, n) == IF n = 0 THEN s ELSE RngNext(RngIter(s, n - 1))

AllDone == \A i \in Reqs : thr[i].pc = "done"

Taken == { d \in Reqs \X {"su", "st"} : thr[d[1]][d[2]] # -1 }

=============================================================================
